---- MODULE Spec2Model ----
(***************************************************************************)
(* Model of server.js: the /api/login availability probe, the              *)
(* /api/generate dispatcher with its three vendor branches, and the        *)
(* systemFor prompt builder.                                               *)
(*                                                                         *)
(* JavaScript values are tagged records ([t |-> "string", v |-> ...]),     *)
(* so that undefined, null, "" and objects stay distinct.  A JavaScript    *)
(* string that the code assembles from pieces (a prompt) is the sequence   *)
(* of its pieces: the literals of the source and the separators that       *)
(* join() and the template literals put between them.  Typographic         *)
(* characters of the source literals (bullet, dashes, curly apostrophe)    *)
(* are written in ASCII.                                                   *)
(***************************************************************************)
EXTENDS Integers, Sequences, FiniteSets, TLC

VARIABLES env, handlers, loginRes, composeIn, composeOut

vars == <<env, handlers, loginRes, composeIn, composeOut>>

(***************************************************************************)
(* Bounds                                                                  *)
(***************************************************************************)
\* number of /api/generate requests that can be in flight at once
MaxHandlers == 3

(***************************************************************************)
(* JavaScript values                                                       *)
(***************************************************************************)
Undef == [t |-> "undefined"]

Null == [t |-> "null"]

Str(s) == [t |-> "string", v |-> s]

Arr(a) == [t |-> "array", v |-> a]

Obj(f) == [t |-> "object", v |-> f]

\* x == null, the test behind ?. and ??
Nullish(x) == x.t \in {"undefined", "null"}

\* ToBoolean, the test behind ! and !!
Truthy(x) == ~Nullish(x) /\ x # Str("")

\* a destructuring or parameter default applies to undefined only
Default(x, d) == IF x = Undef THEN d ELSE x

\* x ?? d
Coalesce(x, d) == IF Nullish(x) THEN d ELSE x

\* x.k on a value that is not nullish
Prop(x, k) ==
  IF x.t = "object" /\ k \in DOMAIN x.v THEN x.v[k] ELSE Undef

\* x[0] on a value that is not nullish
First(x) ==
  IF x.t = "array" /\ Len(x.v) > 0 THEN x.v[1] ELSE Undef

(***************************************************************************)
(* Strings assembled from pieces                                           *)
(***************************************************************************)
NL == "\n"

SP == " "

\* Array.prototype.join over an array of string literals
RECURSIVE Join(_, _)
Join(arr, sep) ==
  IF Len(arr) = 0 THEN <<>>
  ELSE IF Len(arr) = 1 THEN <<arr[1]>>
  ELSE <<arr[1], sep>> \o Join(Tail(arr), sep)

(***************************************************************************)
(* systemFor: the prompt builder                                           *)
(***************************************************************************)
GENERAL_GUIDELINES ==
  Join(<< "Default Scripture is NKJV - quote verbatim or reference.",
          "All content should be biblically accurate and align with sound Evangelical Christian doctrine, with an emphasis on Pentecostal beliefs.",
          "Illustrations must be current and relevant to a modern audience.",
          "Tone: warm, authoritative, and compassionate; 'Human-First' - avoid mechanical, robotic, or formulaic language.",
          "All content must be Christ-centered and bring glory to God." >>, SP)

HUMAN_VOICE ==
  Join(<< "Write with a natural, pastoral human voice.",
          "Vary sentence length: mix short, punchy lines with longer, more reflective sentences.",
          "Use contractions (you'll, we're, don't) and occasional rhetorical questions.",
          "Prefer paragraphs over bullet lists unless the structure explicitly requires lists.",
          "Avoid boilerplate phrases like 'in conclusion', 'in today's fast-paced world', or 'this article will'.",
          "Avoid meta-language (do not say 'as an AI', 'this essay will').",
          "Include concrete, real-life details (e.g., a Tuesday commute, a grocery line, a late-night hospital visit) when illustrating.",
          "Allow mild, tasteful disfluencies for cadence (e.g., a fragment for emphasis).",
          "Keep tone warm, authentic, unpretentious; prioritize clarity over flourish." >>, SP)

ROLE_sermonCrafter ==
  << "You are Pentecostal and biblically sound; your communication style is 'Human-First'-warm, intellectually stimulating, and deeply authentic." >>

OUTLINE_STOP ==
  "Then STOP and wait for explicit user approval. Do NOT write the full sermon."

ASSIGNMENT_outline ==
  Join(<< "You follow a strict two-step workflow for sermon creation.",
          "Step 1 (current): Generate a structured sermon outline that includes:",
          "* A compelling, concise introduction summary.",
          "* 3-5 distinct sermon points for the body; each point briefly states a biblical truth that will be explored.",
          "* A concise conclusion that reinforces the main message.",
          OUTLINE_STOP >>, SP)

FULL_INTRO ==
  "* Introduction (~200 words): An engaging passage that introduces the topic and hooks the listener."

FULL_BODY ==
  "* Body (~1700 words): For each of the 3-5 sermon points, produce a complete teaching unit:"

FULL_CONCLUSION ==
  "* Conclusion (~200 words): A strong wrap-up that reinforces the main message and encourages application."

ASSIGNMENT_FULL ==
  Join(<< "Step 2: The user has approved the outline.",
          "Generate a COMPLETE sermon that strictly follows the approved outline and this exact structure:",
          FULL_INTRO,
          FULL_BODY,
          "  - A thorough explanation of the designated Scripture, including its original context.",
          "  - A clear breakdown of the theological principles (sound doctrine) found in the text.",
          "  - A modern, relatable story, analogy, or anecdote that makes the point tangible and memorable.",
          "  - Clear, actionable steps for listeners to apply the biblical truth to their daily lives.",
          FULL_CONCLUSION >>, SP)

ROLE_sermonEnhancer ==
  << "You are a seasoned Pastor, master of Homiletics, and expert Speechwriter, Pentecostal and biblically sound, with a 'Human-First' style-warm, intellectually stimulating, and deeply authentic." >>

ASSIGNMENT_sermonEnhancer ==
  Join(<< "Perform TWO distinct tasks in a single response:",
          "1) Analyze the draft for clarity, theological flow, and emotional resonance.",
          "2) Then rewrite the sermon (~2000 words) for spoken delivery, optimizing for the ear (cadence, signposting, repetition for emphasis)." >>, SP)

ROLE_bibleStudyTool ==
  << "Act as an expert Bible study curriculum writer." >>

ASSIGNMENT_bibleStudyTool ==
  Join(<< "Create comprehensive, practical, and engaging Bible study guides for any provided topic.",
          "Emphasize practical, real-world application for today's Christian in every guide.",
          "Ensure all interpretations are biblically accurate and align with Christian doctrine.",
          "Integrate relevant illustrations or analogies to clarify and make concepts relatable.",
          "Structure every guide using EXACTLY these four sections:",
          "  * Icebreaker: Begin with a brief, relevant question or activity to open discussion.",
          "  * Discussion Questions: Provide ~8 insightful questions based on the passage/topic, EACH with a suggested answer to guide the study leader.",
          "  * Application: Provide clear, actionable steps that participants can practice this week.",
          "  * Prayer: Close with a short, heartfelt prayer aligned with the study's main message.",
          "Maintain a helpful, neutral, respectful, Christ-like tone in all responses." >>, SP)

ROLE_biblicalApplications ==
  << "You are a biblically faithful teacher focused on practical discipleship." >>

ASSIGNMENT_biblicalApplications ==
  << "Given a passage or topic, list concrete life applications with Scripture support." >>

ROLE_fallback ==
  << "You are a helpful assistant for pastoral ministry." >>

\* the two guideline blocks swapped
Template4_voiceFirst(role, assignment) ==
  role \o <<NL>> \o assignment \o <<NL>> \o HUMAN_VOICE
       \o <<NL>> \o GENERAL_GUIDELINES

\* `${ROLE}\n${ASSIGNMENT}\n${GENERAL_GUIDELINES}\n${HUMAN_VOICE}`
Template4(role, assignment) ==
  role \o <<NL>> \o assignment \o <<NL>> \o GENERAL_GUIDELINES
       \o <<NL>> \o HUMAN_VOICE

\* `You are a helpful assistant for pastoral ministry. ${GENERAL_GUIDELINES} ${HUMAN_VOICE}`
TemplateFallback ==
  ROLE_fallback \o <<SP>> \o GENERAL_GUIDELINES \o <<SP>> \o HUMAN_VOICE

\* the mode compared without regard to case
isOutline_anyCase(mode) == mode \in {Str("outline"), Str("Outline")}

\* mode === 'outline'
isOutline(mode) == mode = Str("outline")

\* the full sermon is only written once an outline request has been seen
systemFor_session(task, modeArg) ==
  LET mode == Default(modeArg, Str("default"))
      outlineSeen ==
        \E j \in DOMAIN handlers :
          /\ handlers[j].body.t = "object"
          /\ Prop(handlers[j].body, "mode") = Str("outline")
  IN
  IF task = Str("sermonCrafter") THEN
    IF mode = Str("outline") \/ ~outlineSeen
    THEN Template4(ROLE_sermonCrafter, ASSIGNMENT_outline)
    ELSE Template4(ROLE_sermonCrafter, ASSIGNMENT_FULL)
  ELSE IF task = Str("sermonEnhancer") THEN
    Template4(ROLE_sermonEnhancer, ASSIGNMENT_sermonEnhancer)
  ELSE IF task = Str("bibleStudyTool") THEN
    Template4(ROLE_bibleStudyTool, ASSIGNMENT_bibleStudyTool)
  ELSE IF task = Str("biblicalApplications") THEN
    Template4(ROLE_biblicalApplications, ASSIGNMENT_biblicalApplications)
  ELSE TemplateFallback

systemFor(task, modeArg) ==
  LET mode == Default(modeArg, Str("default")) IN
  IF task = Str("sermonCrafter") THEN
    IF isOutline(mode)
    THEN Template4(ROLE_sermonCrafter, ASSIGNMENT_outline)
    ELSE Template4(ROLE_sermonCrafter, ASSIGNMENT_FULL)
  ELSE IF task = Str("sermonEnhancer") THEN
    Template4(ROLE_sermonEnhancer, ASSIGNMENT_sermonEnhancer)
  ELSE IF task = Str("bibleStudyTool") THEN
    Template4(ROLE_bibleStudyTool, ASSIGNMENT_bibleStudyTool)
  ELSE IF task = Str("biblicalApplications") THEN
    Template4(ROLE_biblicalApplications, ASSIGNMENT_biblicalApplications)
  ELSE TemplateFallback

(***************************************************************************)
(* process.env: read at request time, never written                        *)
(***************************************************************************)
EnvNames ==
  {"GOOGLE_API_KEY", "OPENAI_API_KEY", "AZURE_OPENAI_KEY",
   "AZURE_OPENAI_ENDPOINT", "AZURE_OPENAI_DEPLOYMENT"}

\* a variable of the environment is unset, set to the empty string, or set
EnvValue(n) ==
  CASE n = "AZURE_OPENAI_ENDPOINT" -> Str("https://parish.openai.azure.com")
    [] n = "AZURE_OPENAI_DEPLOYMENT" -> Str("gpt4o")
    [] OTHER -> Str("sk-" \o n)

Envs ==
  {e \in [EnvNames -> {Undef, Str("")} \cup {EnvValue(n) : n \in EnvNames}] :
     \A n \in EnvNames : e[n] \in {Undef, Str(""), EnvValue(n)}}

(***************************************************************************)
(* HTTP results of the two routes                                          *)
(***************************************************************************)
\* res.status(code).json(obj); res.json(obj) is status 200
Reply(code, obj) == [status |-> code, json |-> obj]

\* an Error travelling to the catch block
Throw(m) == [t |-> "throw", message |-> m]

(***************************************************************************)
(* POST /api/login                                                         *)
(***************************************************************************)
\* copilot listed on its key alone
providers_keyOnly(e) ==
  [gemini  |-> Truthy(e["GOOGLE_API_KEY"]),
   chatgpt |-> Truthy(e["OPENAI_API_KEY"]),
   copilot |-> Truthy(e["AZURE_OPENAI_KEY"])]

providers(e) ==
  [gemini  |-> Truthy(e["GOOGLE_API_KEY"]),
   chatgpt |-> Truthy(e["OPENAI_API_KEY"]),
   copilot |-> Truthy(e["AZURE_OPENAI_KEY"])
                 /\ Truthy(e["AZURE_OPENAI_ENDPOINT"])
                 /\ Truthy(e["AZURE_OPENAI_DEPLOYMENT"])]

\* Object.entries(providers).filter(([,v])=>v).map(([k])=>k), in key order
available(e) ==
  LET p == providers(e) IN
  (IF p.gemini THEN <<"gemini">> ELSE <<>>)
    \o (IF p.chatgpt THEN <<"chatgpt">> ELSE <<>>)
    \o (IF p.copilot THEN <<"copilot">> ELSE <<>>)

login(e) ==
  IF Len(available(e)) = 0
  THEN Reply(400, [ok |-> FALSE,
                   message |-> Str("No provider configured. Add keys to .env")])
  ELSE Reply(200, [ok |-> TRUE, available |-> available(e)])

(***************************************************************************)
(* The vendor side of fetch: bodies on the wire and what JSON.parse makes  *)
(* of them                                                                 *)
(***************************************************************************)
SyntaxError == Throw("invalid json response body")

Message(content) == Obj([message |-> content])

Choices(a) == Obj([id |-> Str("cmpl-1"), choices |-> a])

Candidates(a) == Obj([modelVersion |-> Str("gemini-2.5-flash"), candidates |-> a])

Parts(a) == Candidates(Arr(<< Obj([content |-> Obj([parts |-> a])]) >>))

\* JSON.parse of the body text, as r.json() does
JsonParse(raw) ==
  CASE raw = "null" -> Null
    [] raw = "{\"id\":\"cmpl-1\"}" -> Obj([id |-> Str("cmpl-1")])
    [] raw = "{\"choices\":null}" -> Choices(Null)
    [] raw = "{\"choices\":[]}" -> Choices(Arr(<<>>))
    [] raw = "{\"choices\":[null]}" -> Choices(Arr(<<Null>>))
    [] raw = "{\"choices\":[{\"index\":0}]}" ->
         Choices(Arr(<< Obj([index |-> Str("0")]) >>))
    [] raw = "{\"choices\":[{\"message\":null}]}" ->
         Choices(Arr(<< Message(Null) >>))
    [] raw = "{\"choices\":[{\"message\":{\"role\":\"assistant\"}}]}" ->
         Choices(Arr(<< Message(Obj([role |-> Str("assistant")])) >>))
    [] raw = "{\"choices\":[{\"message\":{\"content\":null}}]}" ->
         Choices(Arr(<< Message(Obj([content |-> Null])) >>))
    [] raw = "{\"choices\":[{\"message\":{\"content\":\"\"}}]}" ->
         Choices(Arr(<< Message(Obj([content |-> Str("")])) >>))
    [] raw = "{\"choices\":[{\"message\":{\"content\":\"Amen\"}}]}" ->
         Choices(Arr(<< Message(Obj([content |-> Str("Amen")])) >>))
    [] raw = "{\"choices\":[{\"message\":{\"content\":\"Amen\"}},{\"message\":{\"content\":\"Selah\"}}]}" ->
         Choices(Arr(<< Message(Obj([content |-> Str("Amen")])),
                        Message(Obj([content |-> Str("Selah")])) >>))
    [] raw = "{\"candidates\":null}" -> Candidates(Null)
    [] raw = "{\"candidates\":[]}" -> Candidates(Arr(<<>>))
    [] raw = "{\"candidates\":[{\"index\":0}]}" ->
         Candidates(Arr(<< Obj([index |-> Str("0")]) >>))
    [] raw = "{\"candidates\":[{\"content\":null}]}" ->
         Candidates(Arr(<< Obj([content |-> Null]) >>))
    [] raw = "{\"candidates\":[{\"content\":{\"role\":\"model\"}}]}" ->
         Candidates(Arr(<< Obj([content |-> Obj([role |-> Str("model")])]) >>))
    [] raw = "{\"candidates\":[{\"content\":{\"parts\":null}}]}" -> Parts(Null)
    [] raw = "{\"candidates\":[{\"content\":{\"parts\":[]}}]}" -> Parts(Arr(<<>>))
    [] raw = "{\"candidates\":[{\"content\":{\"parts\":[null]}}]}" ->
         Parts(Arr(<<Null>>))
    [] raw = "{\"candidates\":[{\"content\":{\"parts\":{}}}]}" ->
         Parts(Obj(<<>>))
    [] raw = "{\"candidates\":[{\"content\":{\"parts\":[{\"thought\":true}]}}]}" ->
         Parts(Arr(<< Obj([thought |-> Str("true")]) >>))
    [] raw = "{\"candidates\":[{\"content\":{\"parts\":[{\"text\":null}]}}]}" ->
         Parts(Arr(<< Obj([text |-> Null]) >>))
    [] raw = "{\"candidates\":[{\"content\":{\"parts\":[{\"text\":\"Amen\"}]}}]}" ->
         Parts(Arr(<< Obj([text |-> Str("Amen")]) >>))
    [] raw = "{\"candidates\":[{\"content\":{\"parts\":[{\"text\":\"A\"},{\"text\":\"men\"}]}}]}" ->
         Parts(Arr(<< Obj([text |-> Str("A")]), Obj([text |-> Str("men")]) >>))
    [] OTHER -> SyntaxError

\* bodies a vendor sends with a success status
OkBodies ==
  {"null",
   "{\"id\":\"cmpl-1\"}",
   "{\"choices\":null}",
   "{\"choices\":[]}",
   "{\"choices\":[null]}",
   "{\"choices\":[{\"index\":0}]}",
   "{\"choices\":[{\"message\":null}]}",
   "{\"choices\":[{\"message\":{\"role\":\"assistant\"}}]}",
   "{\"choices\":[{\"message\":{\"content\":null}}]}",
   "{\"choices\":[{\"message\":{\"content\":\"\"}}]}",
   "{\"choices\":[{\"message\":{\"content\":\"Amen\"}}]}",
   "{\"choices\":[{\"message\":{\"content\":\"Amen\"}},{\"message\":{\"content\":\"Selah\"}}]}",
   "{\"candidates\":null}",
   "{\"candidates\":[]}",
   "{\"candidates\":[{\"index\":0}]}",
   "{\"candidates\":[{\"content\":null}]}",
   "{\"candidates\":[{\"content\":{\"role\":\"model\"}}]}",
   "{\"candidates\":[{\"content\":{\"parts\":null}}]}",
   "{\"candidates\":[{\"content\":{\"parts\":[]}}]}",
   "{\"candidates\":[{\"content\":{\"parts\":[null]}}]}",
   "{\"candidates\":[{\"content\":{\"parts\":{}}}]}",
   "{\"candidates\":[{\"content\":{\"parts\":[{\"thought\":true}]}}]}",
   "{\"candidates\":[{\"content\":{\"parts\":[{\"text\":null}]}}]}",
   "{\"candidates\":[{\"content\":{\"parts\":[{\"text\":\"Amen\"}]}}]}",
   "{\"candidates\":[{\"content\":{\"parts\":[{\"text\":\"A\"},{\"text\":\"men\"}]}}]}",
   "<html>Bad Gateway</html>"}

\* bodies a vendor sends with a non-success status
ErrorBodies ==
  {"rate limited", "", "{\"error\":{\"message\":\"Incorrect API key\"}}"}

\* what fetch() settles to: a rejection, or a Response
Rejected(m) == [settled |-> "rejected", message |-> m]

Response(isOk, code, raw) ==
  [settled |-> "fulfilled", ok |-> isOk, status |-> code, body |-> raw]

FetchOutcomes ==
  {Rejected("request failed, reason: connect ECONNREFUSED")}
    \cup {Response(TRUE, 200, b) : b \in OkBodies}
    \cup {Response(FALSE, c, b) : c \in {429, 500}, b \in ErrorBodies}

(***************************************************************************)
(* Reading the generated text out of the vendor's JSON                     *)
(***************************************************************************)
\* x?.k
OptProp(x, k) == IF Nullish(x) THEN Undef ELSE Prop(x, k)

\* x?.[0]
OptFirst(x) == IF Nullish(x) THEN Undef ELSE First(x)

\* the content read without the ?? '' default
ChatContent_noDefault(data) ==
  IF Nullish(data)
  THEN Throw("Cannot read properties of " \o data.t \o " (reading 'choices')")
  ELSE OptProp(OptProp(OptFirst(Prop(data, "choices")), "message"), "content")

\* data.choices?.[0]?.message?.content ?? ''
ChatContent(data) ==
  IF Nullish(data)
  THEN Throw("Cannot read properties of " \o data.t \o " (reading 'choices')")
  ELSE Coalesce(OptProp(OptProp(OptFirst(Prop(data, "choices")), "message"),
                        "content"),
                Str(""))

\* Array.prototype.join(''): undefined and null elements count as ''
RECURSIVE JoinText(_)
JoinText(a) ==
  IF Len(a) = 0 THEN ""
  ELSE (IF Nullish(a[1]) THEN "" ELSE a[1].v) \o JoinText(Tail(a))

\* data.candidates?.[0]?.content?.parts?.map(p=>p.text).join('') ?? ''
GeminiText(data) ==
  IF Nullish(data)
  THEN Throw("Cannot read properties of " \o data.t \o " (reading 'candidates')")
  ELSE LET parts == OptProp(OptProp(OptFirst(Prop(data, "candidates")),
                                    "content"), "parts")
       IN  IF Nullish(parts) THEN Str("")
           ELSE IF parts.t # "array"
           THEN Throw("data.candidates?.[0]?.content?.parts?.map is not a function")
           ELSE IF \E k \in 1..Len(parts.v) : Nullish(parts.v[k])
           THEN Throw("Cannot read properties of null (reading 'text')")
           ELSE Str(JoinText([k \in 1..Len(parts.v) |-> Prop(parts.v[k], "text")]))

(***************************************************************************)
(* POST /api/generate                                                      *)
(***************************************************************************)
KnownProviders == {"chatgpt", "gemini", "copilot"}

\* `${x}` inside a template literal
ToStr(x) == IF x.t = "string" THEN x.v ELSE x.t

\* the state of one request of /api/generate: where its async handler
\* stands, its locals, the fetch calls it has made and its HTTP result
Handler(pc, body, provider, system, calls, resp, res) ==
  [pc |-> pc, body |-> body, provider |-> provider, system |-> system,
   calls |-> calls, resp |-> resp, res |-> res]

Idle == Handler("idle", Undef, Undef, <<>>, <<>>, Undef, Undef)

\* req.body || {}
BodyOf(body) == IF Truthy(body) THEN body ELSE Obj(<<>>)

\* another default provider
DEFAULT_PROVIDER_gemini == Str("gemini")

\* provider = 'chatgpt' in the destructuring
DEFAULT_PROVIDER == Str("chatgpt")

\* only the task validated
invalid_taskOnly(task, input) == ~Truthy(task)

\* !task || !input
invalid(task, input) == ~Truthy(task) \/ ~Truthy(input)

\* the catch block
caught(h, e) ==
  [h EXCEPT !.pc = "done",
            !.res = Reply(500, [ok |-> FALSE, error |-> Str(e.message)])]

chatgptReady(e) == Truthy(e["OPENAI_API_KEY"])

geminiReady(e) == Truthy(e["GOOGLE_API_KEY"])

\* copilot checked on its key alone
copilotReady_keyOnly(e) == Truthy(e["AZURE_OPENAI_KEY"])

copilotReady(e) ==
  Truthy(e["AZURE_OPENAI_KEY"]) /\ Truthy(e["AZURE_OPENAI_ENDPOINT"])
    /\ Truthy(e["AZURE_OPENAI_DEPLOYMENT"])

ChatMessages(system, input) ==
  << [role |-> "system", content |-> system],
     [role |-> "user", content |-> input] >>

chatgptRequest(e, system, input) ==
  [url |-> "https://api.openai.com/v1/chat/completions",
   headers |-> [Authorization |-> "Bearer " \o ToStr(e["OPENAI_API_KEY"])],
   body |-> [model |-> "gpt-4o-mini",
             messages |-> ChatMessages(system, input)]]

geminiRequest(e, system, input) ==
  [url |-> "https://generativelanguage.googleapis.com/v1beta/models/"
             \o "gemini-2.5-flash" \o ":generateContent",
   headers |-> [xGoogApiKey |-> ToStr(e["GOOGLE_API_KEY"])],
   body |-> [contents |->
               << [role |-> "user",
                   text |-> system \o <<"\n\nUser:\n", ToStr(input)>>] >>]]

copilotRequest(e, system, input) ==
  [url |-> ToStr(e["AZURE_OPENAI_ENDPOINT"]) \o "/openai/deployments/"
             \o ToStr(e["AZURE_OPENAI_DEPLOYMENT"])
             \o "/chat/completions?api-version=2024-06-01",
   headers |-> [apiKey |-> ToStr(e["AZURE_OPENAI_KEY"])],
   body |-> [messages |-> ChatMessages(system, input)]]

\* await fetch(...): the call is made and the handler waits for it to settle
fetching(h, call) == [h EXCEPT !.pc = "fetch", !.calls = Append(@, call)]

\* the handler from its entry to its first await, return or throw
generate(e, body) ==
  LET b        == BodyOf(body)
      provider == Default(Prop(b, "provider"), DEFAULT_PROVIDER)
      task     == Prop(b, "task")
      input    == Prop(b, "input")
      mode     == Default(Prop(b, "mode"), Str("default"))
      h0       == Handler("run", body, provider, <<>>, <<>>, Undef, Undef)
  IN
  IF invalid(task, input)
  THEN [h0 EXCEPT !.pc = "done",
                  !.res = Reply(400, [ok |-> FALSE,
                                      error |-> Str("task and input required")])]
  ELSE
    LET system == systemFor(task, mode)
        h      == [h0 EXCEPT !.system = system]
    IN
    IF provider = Str("chatgpt") THEN
      IF ~chatgptReady(e) THEN caught(h, Throw("OPENAI_API_KEY missing"))
      ELSE fetching(h, chatgptRequest(e, system, input))
    ELSE IF provider = Str("gemini") THEN
      IF ~geminiReady(e) THEN caught(h, Throw("GOOGLE_API_KEY missing"))
      ELSE fetching(h, geminiRequest(e, system, input))
    ELSE IF provider = Str("copilot") THEN
      IF ~copilotReady(e) THEN caught(h, Throw("Azure OpenAI env missing"))
      ELSE fetching(h, copilotRequest(e, system, input))
    ELSE [h EXCEPT !.pc = "done",
                   !.res = Reply(400, [ok |-> FALSE,
                                       error |-> Str("Unknown provider")])]

\* a failure status answered by one more attempt
afterFetch_retry(h, o) ==
  IF o.settled = "rejected"
  THEN caught([h EXCEPT !.resp = o], Throw(o.message))
  ELSE IF ~o.ok THEN
    IF Len(h.calls) < 2
    THEN [h EXCEPT !.calls = Append(@, @[1])]
    ELSE [h EXCEPT !.pc = "text", !.resp = o]
  ELSE [h EXCEPT !.pc = "json", !.resp = o]

\* fetch settles: a rejection goes to the catch block; otherwise the branch
\* on r.ok starts reading the body, as text or as JSON
afterFetch(h, o) ==
  IF o.settled = "rejected"
  THEN caught([h EXCEPT !.resp = o], Throw(o.message))
  ELSE IF ~o.ok THEN [h EXCEPT !.pc = "text", !.resp = o]
  ELSE [h EXCEPT !.pc = "json", !.resp = o]

\* the status line reported in place of the body
afterText_statusText(h) ==
  [h EXCEPT !.pc = "done",
            !.res = Reply(500, [ok |-> FALSE,
                                error |-> Str("Internal Server Error")])]

\* return res.status(500).json({ ok:false, error: await r.text() })
afterText(h) ==
  [h EXCEPT !.pc = "done",
            !.res = Reply(500, [ok |-> FALSE, error |-> Str(h.resp.body)])]

\* the expression of the branch that reads the text out of data
extractText(provider, data) ==
  IF provider = Str("gemini") THEN GeminiText(data) ELSE ChatContent(data)

\* const data = await r.json(); return res.json({ ok:true, output: text })
afterJson(h) ==
  LET data == JsonParse(h.resp.body) IN
  IF data.t = "throw" THEN caught(h, data)
  ELSE LET text == extractText(h.provider, data) IN
       IF text.t = "throw" THEN caught(h, text)
       ELSE [h EXCEPT !.pc = "done",
                      !.res = Reply(200, [ok |-> TRUE, output |-> text])]

(***************************************************************************)
(* Requests                                                                *)
(***************************************************************************)
RequestBody(provider, task, input, mode) ==
  Obj([provider |-> provider, task |-> task, input |-> input, mode |-> mode])

ProviderValues ==
  {Undef, Null, Str("chatgpt"), Str("gemini"), Str("copilot"), Str("bard")}

TaskValues ==
  {Undef, Str(""), Str("sermonCrafter"), Str("sermonEnhancer"),
   Str("bibleStudyTool"), Str("biblicalApplications"), Str("psalmWriter")}

InputValues == {Undef, Str(""), Str("Joseph")}

ModeValues == {Undef, Str("outline"), Str("full"), Str("default")}

Bodies ==
  {Undef} \cup {RequestBody(p, t, i, m) :
                  p \in ProviderValues, t \in TaskValues,
                  i \in InputValues, m \in ModeValues}

(***************************************************************************)
(* Actions                                                                 *)
(***************************************************************************)
Ids == DOMAIN handlers

\* a request arrives and its handler runs to its first await or to its end
Receive(i, body) ==
  /\ handlers[i].pc = "idle"
  /\ handlers' = [handlers EXCEPT ![i] = generate(env, body)]
  /\ UNCHANGED <<env, loginRes, composeIn, composeOut>>

FetchSettles(i, o) ==
  /\ handlers[i].pc = "fetch"
  /\ handlers' = [handlers EXCEPT ![i] = afterFetch(@, o)]
  /\ UNCHANGED <<env, loginRes, composeIn, composeOut>>

TextSettles(i) ==
  /\ handlers[i].pc = "text"
  /\ handlers' = [handlers EXCEPT ![i] = afterText(@)]
  /\ UNCHANGED <<env, loginRes, composeIn, composeOut>>

JsonSettles(i) ==
  /\ handlers[i].pc = "json"
  /\ handlers' = [handlers EXCEPT ![i] = afterJson(@)]
  /\ UNCHANGED <<env, loginRes, composeIn, composeOut>>

\* the response is sent and the request's locals are gone
Finish(i) ==
  /\ handlers[i].pc = "done"
  /\ handlers' = [handlers EXCEPT ![i] = Idle]
  /\ UNCHANGED <<env, loginRes, composeIn, composeOut>>

Login ==
  /\ loginRes' = login(env)
  /\ UNCHANGED <<env, handlers, composeIn, composeOut>>

\* systemFor applied to the k-th mode of the drawn input
Compose(k) ==
  /\ composeIn # Undef
  /\ composeOut[k] = Undef
  /\ composeOut' =
       [composeOut EXCEPT ![k] = systemFor(composeIn.task, composeIn.modes[k])]
  /\ UNCHANGED <<env, handlers, loginRes, composeIn>>

(***************************************************************************)
(* Specifications                                                          *)
(***************************************************************************)
\* one request at a time, every request body, environment and vendor answer
Init ==
  /\ env \in Envs
  /\ handlers = [i \in {1} |-> Idle]
  /\ loginRes = Undef
  /\ composeIn = Undef
  /\ composeOut = Undef

Next ==
  \/ \E i \in Ids, b \in Bodies : Receive(i, b)
  \/ \E i \in Ids, o \in FetchOutcomes : FetchSettles(i, o)
  \/ \E i \in Ids : TextSettles(i)
  \/ \E i \in Ids : JsonSettles(i)
  \/ \E i \in Ids : Finish(i)
  \/ Login

Spec == Init /\ [][Next]_vars

\* requests in flight together
ConcEnvs ==
  {e \in Envs : /\ e["OPENAI_API_KEY"] # Str("")
                /\ e["GOOGLE_API_KEY"] # Str("")
                /\ e["AZURE_OPENAI_KEY"] = Undef
                /\ e["AZURE_OPENAI_ENDPOINT"] = Undef
                /\ e["AZURE_OPENAI_DEPLOYMENT"] = Undef}

ConcBodies ==
  {RequestBody(Undef, Str("sermonCrafter"), Str("Joseph"), Str("outline")),
   RequestBody(Undef, Str("sermonCrafter"), Str("Joseph"), Undef),
   RequestBody(Str("gemini"), Str("sermonEnhancer"), Str("Joseph"), Undef),
   RequestBody(Str("chatgpt"), Undef, Str("Joseph"), Undef)}

ConcOutcomes ==
  {Rejected("request failed, reason: connect ECONNREFUSED"),
   Response(TRUE, 200, "{\"choices\":[{\"message\":{\"content\":\"Amen\"}}]}"),
   Response(FALSE, 500, "rate limited")}

InitConc ==
  /\ env \in ConcEnvs
  /\ handlers = [i \in 1..MaxHandlers |-> Idle]
  /\ loginRes = Undef
  /\ composeIn = Undef
  /\ composeOut = Undef

NextConc ==
  \/ \E i \in Ids, b \in ConcBodies : Receive(i, b)
  \/ \E i \in Ids, o \in ConcOutcomes : FetchSettles(i, o)
  \/ \E i \in Ids : TextSettles(i)
  \/ \E i \in Ids : JsonSettles(i)
  \/ \E i \in Ids : Finish(i)

SpecConc == InitConc /\ [][NextConc]_vars

\* systemFor as a function: a task and two modes are drawn, then composed
ComposeTasks ==
  TaskValues \cup {Null, Str("SermonCrafter"), Str("sermon crafter")}

ComposeModes ==
  ModeValues \cup {Null, Str(""), Str("Outline"), Str("draft")}

InitCompose ==
  /\ env \in {[n \in EnvNames |-> Undef]}
  /\ handlers = <<>>
  /\ loginRes = Undef
  /\ composeIn \in [task : ComposeTasks, modes : ComposeModes \X ComposeModes]
  /\ composeOut = <<Undef, Undef>>

NextCompose == \E k \in {1, 2} : Compose(k)

SpecCompose == InitCompose /\ [][NextCompose]_vars

(***************************************************************************)
(* Reading a composed prompt                                               *)
(***************************************************************************)
\* the pieces of block occur in s, next to each other and in order
Includes(s, block) ==
  \E i \in 0..(Len(s) - Len(block)) :
    \A j \in 1..Len(block) : s[i + j] = block[j]

\* the pieces of s between occurrences of the separator sep
RECURSIVE Split(_, _)
Split(s, sep) ==
  IF \A i \in 1..Len(s) : s[i] # sep THEN <<s>>
  ELSE LET k == CHOOSE i \in 1..Len(s) :
                  s[i] = sep /\ \A j \in 1..(i - 1) : s[j] # sep
       IN  <<SubSeq(s, 1, k - 1)>> \o Split(SubSeq(s, k + 1, Len(s)), sep)

(***************************************************************************)
(* The request as its sender wrote it                                      *)
(***************************************************************************)
ReqField(h, k) == Prop(BodyOf(h.body), k)

\* a field that is missing or empty
Blank(x) == x \in {Undef, Null, Str("")}

\* the provider the request names, chatgpt when it names none
NamedProvider(h) ==
  IF ReqField(h, "provider") = Undef THEN Str("chatgpt")
  ELSE ReqField(h, "provider")

IsKnown(p) == p \in {Str(k) : k \in KnownProviders}

ValidRequest(h) ==
  /\ ~Blank(ReqField(h, "task"))
  /\ ~Blank(ReqField(h, "input"))
  /\ IsKnown(NamedProvider(h))

\* the credential fields a provider requires
Required(p) ==
  CASE p = Str("chatgpt") -> {"OPENAI_API_KEY"}
    [] p = Str("gemini") -> {"GOOGLE_API_KEY"}
    [] p = Str("copilot") ->
         {"AZURE_OPENAI_KEY", "AZURE_OPENAI_ENDPOINT", "AZURE_OPENAI_DEPLOYMENT"}
    [] OTHER -> {}

\* the endpoint of a provider
Endpoint(p) ==
  CASE p = Str("chatgpt") -> "https://api.openai.com/v1/chat/completions"
    [] p = Str("gemini") ->
         "https://generativelanguage.googleapis.com/v1beta/models/gemini-2.5-flash:generateContent"
    [] p = Str("copilot") ->
         ToStr(env["AZURE_OPENAI_ENDPOINT"]) \o "/openai/deployments/"
           \o ToStr(env["AZURE_OPENAI_DEPLOYMENT"])
           \o "/chat/completions?api-version=2024-06-01"
    [] OTHER -> "none"

Started(h) == h.pc # "idle"

Answered(h) == h.pc = "done"

\* fetch gave the handler a Response with a non-success status
GotError(h) ==
  h.resp # Undef /\ h.resp.settled = "fulfilled" /\ ~h.resp.ok

\* fetch gave the handler a Response with a success status
GotOk(h) ==
  h.resp # Undef /\ h.resp.settled = "fulfilled" /\ h.resp.ok

(***************************************************************************)
(* C1                                                                      *)
(***************************************************************************)
C1_Rejected(h) ==
  \/ Blank(ReqField(h, "task"))
  \/ Blank(ReqField(h, "input"))
  \/ ReqField(h, "provider") # Undef /\ ~IsKnown(ReqField(h, "provider"))

\* C1: a generation request whose task or input is missing or empty, or whose
\* provider is present but not chatgpt, gemini or copilot, ends in the
\* client error (ok:false, HTTP 400) with no fetch call made, whatever its
\* other fields and whatever credentials are configured.
C1_ClientErrorWithoutFetch ==
  \A i \in Ids :
    LET h == handlers[i] IN
    (Started(h) /\ C1_Rejected(h)) =>
      /\ Answered(h)
      /\ h.res.status = 400
      /\ h.res.json.ok = FALSE
      /\ h.calls = <<>>

\* an unknown provider is named while every credential is configured
C1_Witness ==
  \E i \in Ids :
    LET h == handlers[i] IN
    /\ Answered(h)
    /\ ReqField(h, "provider") = Str("bard")
    /\ ReqField(h, "task") = Str("biblicalApplications")
    /\ ReqField(h, "input") = Str("Joseph")
    /\ \A n \in EnvNames : Truthy(env[n])
    /\ h.res.status = 400
    /\ h.calls = <<>>

(***************************************************************************)
(* C2                                                                      *)
(***************************************************************************)
C2_CredentialAbsent(h) ==
  \E n \in Required(NamedProvider(h)) : env[n] = Undef

\* C2: a valid request to a known provider one of whose required credential
\* fields is absent ends in an error that is not the client error
\* (ok:false, status other than 400), and no fetch call is made.
C2_ConfigurationErrorWithoutFetch ==
  \A i \in Ids :
    LET h == handlers[i] IN
    (Started(h) /\ ValidRequest(h) /\ C2_CredentialAbsent(h)) =>
      /\ Answered(h)
      /\ h.res.json.ok = FALSE
      /\ h.res.status # 400
      /\ h.calls = <<>>

\* copilot is asked with its key and endpoint set and its deployment absent
C2_Witness ==
  \E i \in Ids :
    LET h == handlers[i] IN
    /\ Answered(h)
    /\ ValidRequest(h)
    /\ NamedProvider(h) = Str("copilot")
    /\ Truthy(env["AZURE_OPENAI_KEY"])
    /\ Truthy(env["AZURE_OPENAI_ENDPOINT"])
    /\ env["AZURE_OPENAI_DEPLOYMENT"] = Undef
    /\ Truthy(env["OPENAI_API_KEY"])
    /\ h.res.status = 500
    /\ h.calls = <<>>

(***************************************************************************)
(* C3                                                                      *)
(***************************************************************************)
C3_PassesChecks(h) ==
  /\ ValidRequest(h)
  /\ \A n \in Required(NamedProvider(h)) : Truthy(env[n])

\* C3: a dispatch that passes request validation and the credential check
\* makes exactly one fetch call; no dispatch makes more than one, also after
\* the call failed (non-success status or rejection).
C3_ExactlyOneCall ==
  \A i \in Ids :
    LET h == handlers[i] IN
    /\ Len(h.calls) <= 1
    /\ (Started(h) /\ C3_PassesChecks(h)) => Len(h.calls) = 1

\* a request is answered after its one call came back with a failure status
C3_Witness ==
  \E i \in Ids :
    LET h == handlers[i] IN
    /\ Answered(h)
    /\ C3_PassesChecks(h)
    /\ GotError(h)
    /\ \A n \in EnvNames : Truthy(env[n])
    /\ Len(h.calls) = 1

(***************************************************************************)
(* C4                                                                      *)
(***************************************************************************)
\* C4: every fetch call of a dispatch goes to the endpoint of the provider the
\* request names, the chatgpt endpoint when it names none; never to another
\* provider's endpoint, whichever credentials are configured.
C4_CallsTheNamedProvider ==
  \A i \in Ids :
    LET h == handlers[i] IN
    \A k \in 1..Len(h.calls) : h.calls[k].url = Endpoint(NamedProvider(h))

\* a request naming no provider has called the chatgpt endpoint while the
\* gemini and copilot credentials are configured too
C4_Witness ==
  \E i \in Ids :
    LET h == handlers[i] IN
    /\ ReqField(h, "provider") = Undef
    /\ \A n \in EnvNames : Truthy(env[n])
    /\ Len(h.calls) = 1
    /\ h.calls[1].url = "https://api.openai.com/v1/chat/completions"

(***************************************************************************)
(* C5                                                                      *)
(***************************************************************************)
\* C5: when the vendor answers with a non-success status, the result is an
\* error (ok:false) whose error text is the vendor's response body, unchanged.
C5_UpstreamBodyVerbatim ==
  \A i \in Ids :
    LET h == handlers[i] IN
    (Answered(h) /\ GotError(h)) =>
      /\ h.res.json.ok = FALSE
      /\ h.res.json.error = Str(h.resp.body)

\* gemini answered 500 "rate limited" and the request has been answered
C5_Witness ==
  \E i \in Ids :
    LET h == handlers[i] IN
    /\ Answered(h)
    /\ NamedProvider(h) = Str("gemini")
    /\ GotError(h)
    /\ h.resp.status = 500
    /\ h.resp.body = "rate limited"
    /\ h.res.json.error = Str("rate limited")

(***************************************************************************)
(* C6                                                                      *)
(***************************************************************************)
\* success bodies without generated text, as the chat-completion branches
\* read them: choices missing or empty, message missing, content missing or
\* null
C6_NoTextChat ==
  {"{\"id\":\"cmpl-1\"}",
   "{\"choices\":[]}",
   "{\"choices\":[{\"index\":0}]}",
   "{\"choices\":[{\"message\":{\"role\":\"assistant\"}}]}",
   "{\"choices\":[{\"message\":{\"content\":null}}]}"}

\* and as the gemini branch reads them: candidates missing or empty, content
\* missing or null, parts missing
C6_NoTextGemini ==
  {"{\"id\":\"cmpl-1\"}",
   "{\"candidates\":[]}",
   "{\"candidates\":[{\"index\":0}]}",
   "{\"candidates\":[{\"content\":null}]}",
   "{\"candidates\":[{\"content\":{\"role\":\"model\"}}]}"}

C6_NoText(h) ==
  IF NamedProvider(h) = Str("gemini")
  THEN h.resp.body \in C6_NoTextGemini
  ELSE h.resp.body \in C6_NoTextChat

\* C6: a successful vendor call whose JSON has no text field (choices or
\* candidates missing or empty, message, content or parts missing, content
\* null) is answered {ok:true, output:""}: the empty string, not null or
\* undefined, and not an error.
C6_EmptyOutputOnAbsentText ==
  \A i \in Ids :
    LET h == handlers[i] IN
    (Answered(h) /\ GotOk(h) /\ C6_NoText(h)) =>
      h.res = Reply(200, [ok |-> TRUE, output |-> Str("")])

\* copilot answered 200 with an empty choices array
C6_Witness ==
  \E i \in Ids :
    LET h == handlers[i] IN
    /\ Answered(h)
    /\ NamedProvider(h) = Str("copilot")
    /\ GotOk(h)
    /\ h.resp.body = "{\"choices\":[]}"
    /\ h.res.status = 200

(***************************************************************************)
(* C7                                                                      *)
(***************************************************************************)
RecognizedTasks ==
  {Str("sermonCrafter"), Str("sermonEnhancer"), Str("bibleStudyTool"),
   Str("biblicalApplications")}

RoleOf(task) ==
  CASE task = Str("sermonCrafter") -> ROLE_sermonCrafter
    [] task = Str("sermonEnhancer") -> ROLE_sermonEnhancer
    [] task = Str("bibleStudyTool") -> ROLE_bibleStudyTool
    [] task = Str("biblicalApplications") -> ROLE_biblicalApplications
    [] OTHER -> ROLE_fallback

\* role, assignment, general guidelines, voice guidelines, newline-separated
FourBlocks(s) ==
  LET b == Split(s, NL) IN
  /\ Len(b) = 4
  /\ b[1] # <<>>
  /\ b[2] # <<>>
  /\ b[3] = GENERAL_GUIDELINES
  /\ b[4] = HUMAN_VOICE

Composed(k) == composeOut[k] # Undef

HasOutlineStop(s) == Includes(s, <<OUTLINE_STOP>>)

HasWordCounts(s) ==
  /\ Includes(s, <<FULL_INTRO>>)
  /\ Includes(s, <<FULL_BODY>>)
  /\ Includes(s, <<FULL_CONCLUSION>>)

NoWordCounts(s) ==
  /\ ~Includes(s, <<FULL_INTRO>>)
  /\ ~Includes(s, <<FULL_BODY>>)
  /\ ~Includes(s, <<FULL_CONCLUSION>>)

\* C8: for sermonCrafter, mode "outline" gives a prompt with the outline-stop
\* instruction and without the full-sermon word-count structure, and every
\* other mode gives the word-count structure without the outline-stop
\* instruction; for every other task the prompt is the same for all modes.
C8_ModeOnlyForSermonCrafter ==
  IF composeIn.task = Str("sermonCrafter")
  THEN \A k \in DOMAIN composeOut :
         Composed(k) =>
           IF composeIn.modes[k] = Str("outline")
           THEN HasOutlineStop(composeOut[k]) /\ NoWordCounts(composeOut[k])
           ELSE HasWordCounts(composeOut[k]) /\ ~HasOutlineStop(composeOut[k])
  ELSE \A k, l \in DOMAIN composeOut :
         (Composed(k) /\ Composed(l)) => composeOut[k] = composeOut[l]

\* sermonCrafter has been composed for "outline" and for a mode that only
\* differs from it in case
C8_Witness ==
  /\ composeIn.task = Str("sermonCrafter")
  /\ composeIn.modes = <<Str("outline"), Str("Outline")>>
  /\ Composed(1)
  /\ Composed(2)
  /\ HasOutlineStop(composeOut[1])
  /\ HasWordCounts(composeOut[2])

(***************************************************************************)
(* C9                                                                      *)
(***************************************************************************)
\* C9: two requests with the same fields get the same system prompt, and
\* with the same answer from the vendor the same result, whatever other
\* requests were handled before or are in flight beside them.
C9_RequestsIndependent ==
  \A i, j \in Ids :
    LET g == handlers[i]
        h == handlers[j]
    IN
    (Started(g) /\ Started(h) /\ g.body = h.body) =>
      /\ g.system = h.system
      /\ g.calls = h.calls
      /\ (Answered(g) /\ Answered(h) /\ g.resp = h.resp) => g.res = h.res

\* two full-sermon requests have been answered alike while an outline
\* request is in flight beside them
C9_Witness ==
  \E i, j, k \in Ids :
    /\ i # j
    /\ handlers[i].body = handlers[j].body
    /\ ReqField(handlers[i], "task") = Str("sermonCrafter")
    /\ ReqField(handlers[i], "mode") = Undef
    /\ Answered(handlers[i])
    /\ Answered(handlers[j])
    /\ handlers[i].res.status = 200
    /\ handlers[j].res.status = 200
    /\ ReqField(handlers[k], "mode") = Str("outline")
    /\ handlers[k].pc = "fetch"

(***************************************************************************)
(* C10                                                                     *)
(***************************************************************************)
\* a valid request to provider p gets past the credential check
PassesCredentialCheck(p) ==
  LET h == generate(env, RequestBody(Str(p), Str("biblicalApplications"),
                                     Str("Joseph"), Undef))
  IN  h.pc = "fetch"

Listed(p) ==
  /\ loginRes.json.ok
  /\ \E k \in 1..Len(loginRes.json.available) : loginRes.json.available[k] = p

\* C10: a provider is in the list the login probe returns if and only if a
\* valid generation request to it passes the credential check, and the probe
\* reports the "no provider configured" client error exactly when every
\* known provider fails that check.
C10_ProbeAgreesWithDispatcher ==
  loginRes # Undef =>
    /\ \A p \in KnownProviders : Listed(p) <=> PassesCredentialCheck(p)
    /\ (loginRes.status = 400 /\ ~loginRes.json.ok)
         <=> (\A p \in KnownProviders : ~PassesCredentialCheck(p))
    /\ \A i \in Ids :
         LET h == handlers[i] IN
         (Started(h) /\ ValidRequest(h)) =>
           (Listed(NamedProvider(h).v) <=> Len(h.calls) = 1)

\* the probe lists copilot but not gemini, with the azure credentials set and
\* the google key set to the empty string, and a copilot request has made
\* its call
C10_Witness ==
  /\ loginRes # Undef
  /\ Listed("copilot")
  /\ ~Listed("gemini")
  /\ env["GOOGLE_API_KEY"] = Str("")
  /\ \E i \in Ids :
       /\ NamedProvider(handlers[i]) = Str("copilot")
       /\ Len(handlers[i].calls) = 1

====
